---------------------------- MODULE Spec2Model ----------------------------
(***************************************************************************)
(* Model of the 2.13 inch e-Paper driver, src/micropython_epaper_display.py *)
(* (class EPaperDisplay).                                                   *)
(*                                                                          *)
(* Every method of the class is an operator that yields the method's body   *)
(* as the sequence of hardware accesses it performs, in program order: a    *)
(* level written to an output pin, one spi.write, one execution of the      *)
(* busy-poll loop.  A call of a public operation loads that sequence into   *)
(* `todo`, and the step actions execute it one access at a time, so that    *)
(* every intermediate hardware state of a call is a state of the model.     *)
(* The delays (time.sleep_us / time.sleep_ms) change no state and are not   *)
(* steps.                                                                   *)
(*                                                                          *)
(* The operations a caller invokes are those of the panel controller        *)
(* (hw_reset, sw_reset, init, set_window, set_cursor, set_border, display,  *)
(* turn_on_display, clear, deep_sleep) and power_off.  The framing methods  *)
(* (send_command, send_data, send_bytes), wait_until_idle and the steps of  *)
(* the configuration (set_display_size_and_driver_output,                   *)
(* set_ram_data_entry_mode, display_update) run as part of their callers.   *)
(*                                                                          *)
(* Byte buffers are kept run-length encoded: a sequence of <<value, count>> *)
(* runs.  bytes([c]) is << <<c, 1>> >>, [color] * n is << <<color, n>> >>.  *)
(*                                                                          *)
(* The module ends with the POST /display handler of the companion web      *)
(* server, src/with_wifi_example.py (SpecServer), and with the driver       *)
(* wired to a panel that is busy only after a reset or a refresh            *)
(* (SpecPanel).                                                             *)
(***************************************************************************)
EXTENDS Integers, Sequences, FiniteSets, TLC

VARIABLES
    rst,    \* level last written to the reset pin           (self.rst)
    dc,     \* level last written to the data/command pin    (self.dc)
    cs,     \* level last written to the chip-select pin     (self.cs)
    busy,   \* level most recently read from the busy pin    (self.busy)
    todo,   \* hardware accesses the running call has still to perform
    op,     \* the public operation running, or the last one that ended:
            \* its name and arguments, the lifecycle stage it was called in
            \* (from), and, when the call just before it was a call of the
            \* same operation that returned (again), that call's bus writes
            \* (prev)
    exc,    \* exception that ended the last call, "none" if it returned
    trace,  \* pin writes and bus writes of the current / last call
    power,  \* history variable: lifecycle stage of the panel (spec 4.4);
            \* the driver itself stores no such field
    panel   \* what the panel controller is doing to the busy line: "busy"
            \* (it drives 1), "idle" (it drives 0), or "unknown" when its
            \* behaviour is left open and the pin may read either level

vars == <<rst, dc, cs, busy, todo, op, exc, trace, power, panel>>

---------------------------------------------------------------------------
(* Program constants *)

DISPLAY_WIDTH == 122
DISPLAY_HEIGHT == 250

(* Bounds of the sampled inputs *)

\* how far outside the panel area the sampled coordinates reach
CoordSlack == 2
\* how far around the full-frame length the sampled buffer lengths reach
BufSlack == 1

---------------------------------------------------------------------------
(* Python integer operators used by the driver *)

\* x >> n on Python ints (arithmetic shift: floor division, also for x < 0)
Shr(x, n) == x \div (2 ^ n)

\* x & 0xFF on Python ints (two's complement: the residue modulo 256)
And255(x) == x % 256

---------------------------------------------------------------------------
(* Buffers *)

\* len(buffer)
BufLen(b) ==
    LET RECURSIVE Sum(_)
        Sum(s) == IF s = <<>> THEN 0 ELSE Head(s)[2] + Sum(Tail(s))
    IN Sum(b)

\* bytes(data) raises ValueError unless every element is in range(256)
BytesOk(data) == \A i \in 1..Len(data) : data[i][1] \in 0..255

\* bytes(data): the runs of length 0 vanish, equal neighbours merge
bytes(data) ==
    LET RECURSIVE Norm(_, _)
        Norm(s, acc) ==
            IF s = <<>> THEN acc
            ELSE IF Head(s)[2] = 0 THEN Norm(Tail(s), acc)
            ELSE IF acc # <<>> /\ acc[Len(acc)][1] = Head(s)[1]
                 THEN Norm(Tail(s),
                           [acc EXCEPT ![Len(acc)] =
                               <<@[1], @[2] + Head(s)[2]>>])
                 ELSE Norm(Tail(s), Append(acc, Head(s)))
    IN Norm(data, <<>>)

---------------------------------------------------------------------------
(* Hardware accesses *)

\* pin.value(v) on one of the output pins
SetPin(line, v) == [data |-> <<>>, k |-> "pin", line |-> line, v |-> v]

\* self.spi.write(bytes(data))
SpiWrite(data) == [data |-> data, k |-> "write", line |-> "spi", v |-> 0]

\* one wait_until_idle loop: read self.busy until it reads 0
Poll == [data |-> <<>>, k |-> "wait", line |-> "busy", v |-> 0]

\* the point where a method with a lifecycle transition returns
Return(fn) == [data |-> <<>>, k |-> "ret", line |-> fn, v |-> 0]

---------------------------------------------------------------------------
(* The methods of EPaperDisplay *)

power_off ==
    << SetPin("rst", 0), SetPin("dc", 0), SetPin("cs", 0) >>

\* variant: chip select is not released after the opcode
send_command_select_held(command) ==
    << SetPin("dc", 0), SetPin("cs", 0), SpiWrite(<< <<command, 1>> >>) >>

send_command(command) ==
    << SetPin("dc", 0), SetPin("cs", 0),
       SpiWrite(<< <<command, 1>> >>), SetPin("cs", 1) >>

send_data(data) ==
    << SetPin("dc", 1), SetPin("cs", 0),
       SpiWrite(<< <<data, 1>> >>), SetPin("cs", 1) >>

send_bytes(data) ==
    << SetPin("dc", 1), SetPin("cs", 0),
       SpiWrite(data), SetPin("cs", 1) >>

\* variant: the loop is left out, the call goes on without reading busy
wait_skipped == << >>

wait_until_idle == << Poll >>

\* variant: the pulse starts low, the first high level is left out
hw_reset_short_pulse ==
    << SetPin("rst", 0), SetPin("rst", 1) >>
    \o wait_until_idle
    \o << Return("hw_reset") >>

hw_reset ==
    << SetPin("rst", 1), SetPin("rst", 0), SetPin("rst", 1) >>
    \o wait_until_idle
    \o << Return("hw_reset") >>

sw_reset ==
    send_command(18)                      \* 0x12 SWRESET
    \o wait_until_idle

\* variant: the gate number is the height instead of height - 1
set_display_size_gate_off_by_one ==
    send_command(1)
    \o send_data(250)
    \o send_data(0)
    \o send_data(0)

set_display_size_and_driver_output ==
    send_command(1)                       \* 0x01 driver output control
    \o send_data(249)                     \* 0xF9
    \o send_data(0)
    \o send_data(0)

\* variant: the entry mode is sent twice
set_ram_data_entry_mode_twice(mode) ==
    send_command(17) \o send_data(mode) \o send_data(mode)

set_ram_data_entry_mode(mode) ==
    send_command(17)                      \* 0x11 data entry mode
    \o send_data(mode)

\* variant: the update profile of the fast refresh (0xC7)
display_update_fast ==
    send_command(34)
    \o send_data(199)

display_update ==
    send_command(34)                      \* 0x22 display update control
    \o send_data(247)                     \* 0xF7

\* variant: the refresh is started and the call returns at once
turn_on_display_no_wait ==
    display_update \o send_command(32)

turn_on_display ==
    display_update
    \o send_command(32)                   \* 0x20 activate update
    \o wait_until_idle

\* variant: the X coordinates are sent without the shift by 3
set_window_x_unshifted(x_start, y_start, x_end, y_end) ==
    send_command(68)
    \o send_data(And255(x_start))
    \o send_data(And255(x_end))
    \o send_command(69)
    \o send_data(And255(y_start))
    \o send_data(And255(Shr(y_start, 8)))
    \o send_data(And255(y_end))
    \o send_data(And255(Shr(y_end, 8)))

\* variant: the Y coordinates are sent high byte first
set_window_y_big_endian(x_start, y_start, x_end, y_end) ==
    send_command(68)
    \o send_data(And255(Shr(x_start, 3)))
    \o send_data(And255(Shr(x_end, 3)))
    \o send_command(69)
    \o send_data(And255(Shr(y_start, 8)))
    \o send_data(And255(y_start))
    \o send_data(And255(Shr(y_end, 8)))
    \o send_data(And255(y_end))

set_window(x_start, y_start, x_end, y_end) ==
    send_command(68)                      \* 0x44 RAM X start / end
    \o send_data(And255(Shr(x_start, 3)))
    \o send_data(And255(Shr(x_end, 3)))
    \o send_command(69)                   \* 0x45 RAM Y start / end
    \o send_data(And255(y_start))
    \o send_data(And255(Shr(y_start, 8)))
    \o send_data(And255(y_end))
    \o send_data(And255(Shr(y_end, 8)))

\* variant: the Y counter is sent high byte first
set_cursor_y_big_endian(x, y) ==
    send_command(78)
    \o send_data(And255(x))
    \o send_command(79)
    \o send_data(And255(Shr(y, 8)))
    \o send_data(And255(y))

set_cursor(x, y) ==
    send_command(78)                      \* 0x4E RAM X counter
    \o send_data(And255(x))
    \o send_command(79)                   \* 0x4F RAM Y counter
    \o send_data(And255(y))
    \o send_data(And255(Shr(y, 8)))

\* variant: the border write is followed by a wait for idle
set_border_then_wait(value) ==
    send_command(60) \o send_data(value) \o wait_until_idle

set_border(value) ==
    send_command(60)                      \* 0x3C border
    \o send_data(value)

\* variant: the border is set before the window
init_border_before_window ==
    hw_reset
    \o sw_reset
    \o set_display_size_and_driver_output
    \o set_ram_data_entry_mode(3)
    \o set_border(192)
    \o set_window(0, 0, DISPLAY_WIDTH - 1, DISPLAY_HEIGHT - 1)
    \o wait_until_idle
    \o << Return("init") >>

\* variant: the window ends at width and height instead of one less
init_window_one_past ==
    hw_reset
    \o sw_reset
    \o set_display_size_and_driver_output
    \o set_ram_data_entry_mode(3)
    \o set_window(0, 0, DISPLAY_WIDTH, DISPLAY_HEIGHT)
    \o set_border(192)
    \o wait_until_idle
    \o << Return("init") >>

init ==
    hw_reset
    \o sw_reset
    \o set_display_size_and_driver_output
    \o set_ram_data_entry_mode(3)
    \o set_window(0, 0, DISPLAY_WIDTH - 1, DISPLAY_HEIGHT - 1)
    \o set_border(192)                    \* 0xC0, the default
    \o wait_until_idle
    \o << Return("init") >>

\* variant: the refresh is triggered before the buffer is written
display_refresh_first(image) ==
    set_cursor(0, 0)
    \o send_command(36)
    \o turn_on_display
    \o send_bytes(image)

display(image) ==
    set_cursor(0, 0)
    \o send_command(36)                   \* 0x24 WRITE_RAM
    \o send_bytes(image)
    \o turn_on_display

\* variant: the line width is rounded down (15 bytes for 122 pixels)
clear_stride_rounded_down(color) ==
    LET linewidth == DISPLAY_WIDTH \div 8
        buffer == << <<color, DISPLAY_HEIGHT * linewidth>> >>
    IN display(buffer)

clear(color) ==
    LET linewidth == IF DISPLAY_WIDTH % 8 = 0
                     THEN DISPLAY_WIDTH \div 8
                     ELSE DISPLAY_WIDTH \div 8 + 1
        buffer == << <<color, DISPLAY_HEIGHT * linewidth>> >>
    IN display(buffer)

\* variant: the call waits for idle like the other operations do
deep_sleep_then_wait ==
    send_command(16)
    \o send_data(1)
    \o wait_until_idle
    \o << Return("deep_sleep") >>

deep_sleep ==
    send_command(16)                      \* 0x10 deep sleep
    \o send_data(1)
    \o << Return("deep_sleep") >>

---------------------------------------------------------------------------
(* Lifecycle (spec 4.4): the stage a returning method leaves the panel in *)

Lifecycle(fn, stage) ==
    CASE fn = "hw_reset"   -> "Reset"
      [] fn = "init"       -> "Ready"
      [] fn = "deep_sleep" -> IF stage = "Ready" THEN "Sleep" ELSE stage
      [] OTHER             -> stage

---------------------------------------------------------------------------
(* Sampled inputs *)

\* stride * height, the length of a full frame
FrameLen == ((DISPLAY_WIDTH + 7) \div 8) * DISPLAY_HEIGHT

XRange == (0 - CoordSlack) .. (DISPLAY_WIDTH - 1 + CoordSlack)
YRange == (0 - CoordSlack) .. (DISPLAY_HEIGHT - 1 + CoordSlack)

\* arguments of the calls made between other operations: the panel's corners,
\* the edges of the sampled ranges and coordinates beyond one byte
WindowArgs ==
    {<<0, 0, DISPLAY_WIDTH - 1, DISPLAY_HEIGHT - 1>>,
     <<5, 7, 8, 9>>,
     <<0 - CoordSlack, 0, DISPLAY_WIDTH - 1, DISPLAY_HEIGHT - 1>>,
     <<0, 0 - CoordSlack, DISPLAY_WIDTH - 1, DISPLAY_HEIGHT - 1>>,
     <<0, 0, DISPLAY_WIDTH - 1 + CoordSlack, DISPLAY_HEIGHT - 1>>,
     <<0, 0, DISPLAY_WIDTH - 1, DISPLAY_HEIGHT - 1 + CoordSlack>>,
     <<2048, 65536, 4095, 70000>>}

CursorArgs ==
    {<<0, 0>>, <<DISPLAY_WIDTH - 1, DISPLAY_HEIGHT - 1>>,
     <<0 - CoordSlack, DISPLAY_HEIGHT - 1 + CoordSlack>>, <<300, 70000>>}

FillBytes == {0, 255, 165}

Images ==
    {<< <<f, n>> >> : f \in FillBytes,
                      n \in (FrameLen - BufSlack) .. (FrameLen + BufSlack)}
    \cup {<<>>, << <<255, 10>> >>,
          << <<0, FrameLen - 16>>, <<255, 16>> >>,
          << <<256, FrameLen>> >>}

ClearColors == FillBytes \cup {256}

BorderValues == {192, 128, 0, 64, 256}

---------------------------------------------------------------------------
(* State after construction (__init__): the pins are configured as outputs *)
(* without a value, so their levels are whatever the port holds.           *)

Init ==
    /\ rst \in {0, 1}
    /\ dc \in {0, 1}
    /\ cs \in {0, 1}
    /\ busy \in {0, 1}
    /\ todo = <<>>
    /\ op = [again |-> FALSE, args |-> <<>>, from |-> "Unknown",
             image |-> <<>>, name |-> "__init__", prev |-> <<>>]
    /\ exc = "none"
    /\ trace = <<>>
    /\ power = "Unknown"
    /\ panel = "unknown"

---------------------------------------------------------------------------
(* Calls of the public operations *)

\* no call is running: the object is between two public operations
Idle == todo = <<>>

\* the bus writes of a trace, in order
Writes(tr) == SelectSeq(tr, LAMBDA e : e.ev = "write")

\* entry of a public operation: its body becomes the work to do
Enter(name, args, image, body) ==
    /\ LET again == op.name = name /\ exc = "none" IN
        op' = [again |-> again, args |-> args, from |-> power,
               image |-> image, name |-> name,
               prev |-> IF again THEN Writes(trace) ELSE <<>>]
    /\ todo' = body
    /\ exc' = "none"
    /\ trace' = <<>>
    /\ UNCHANGED <<rst, dc, cs, busy, power, panel>>

Call_power_off ==
    /\ Idle
    /\ Enter("power_off", <<>>, <<>>, power_off)

Call_hw_reset ==
    /\ Idle
    /\ Enter("hw_reset", <<>>, <<>>, hw_reset)

Call_sw_reset ==
    /\ Idle
    /\ Enter("sw_reset", <<>>, <<>>, sw_reset)

Call_init ==
    /\ Idle
    /\ Enter("init", <<>>, <<>>, init)

Call_turn_on_display ==
    /\ Idle
    /\ Enter("turn_on_display", <<>>, <<>>, turn_on_display)

Call_deep_sleep ==
    /\ Idle
    /\ Enter("deep_sleep", <<>>, <<>>, deep_sleep)

Call_set_window ==
    /\ Idle
    /\ \E a \in WindowArgs :
        Enter("set_window", a, <<>>, set_window(a[1], a[2], a[3], a[4]))

Call_set_cursor ==
    /\ Idle
    /\ \E a \in CursorArgs :
        Enter("set_cursor", a, <<>>, set_cursor(a[1], a[2]))

Call_set_border ==
    /\ Idle
    /\ \E v \in BorderValues :
        Enter("set_border", <<v>>, <<>>, set_border(v))

Call_display ==
    /\ Idle
    /\ \E image \in Images : Enter("display", <<>>, image, display(image))

Call_clear ==
    /\ Idle
    /\ \E color \in ClearColors :
        Enter("clear", <<color>>, <<>>, clear(color))

---------------------------------------------------------------------------
(* Execution of one hardware access of the running call *)

\* an entry of the trace: a level written to a pin, or a bus write together
\* with the levels of data/command (v) and chip select (sel) it was made under
Event(ev, line, v, sel, data) ==
    [data |-> data, ev |-> ev, line |-> line, sel |-> sel, v |-> v]

\* the panel after a level is written to a pin: a reset pulse (the reset
\* pin driven low, or released from low) makes the controller busy
PanelAfterPin(line, v) ==
    IF panel # "unknown" /\ line = "rst" /\ (v = 0 \/ rst = 0)
    THEN "busy"
    ELSE panel

\* the panel after a bus write: the opcodes 0x12 (software reset) and 0x20
\* (activate the display update), received with chip select asserted and
\* data/command low, make the controller busy
PanelAfterWrite(data) ==
    IF panel # "unknown" /\ cs = 0 /\ dc = 0
       /\ (data = << <<18, 1>> >> \/ data = << <<32, 1>> >>)
    THEN "busy"
    ELSE panel

\* pin.value(v)
StepSetPin ==
    /\ todo # <<>>
    /\ Head(todo).k = "pin"
    /\ LET s == Head(todo) IN
        /\ rst' = IF s.line = "rst" THEN s.v ELSE rst
        /\ dc' = IF s.line = "dc" THEN s.v ELSE dc
        /\ cs' = IF s.line = "cs" THEN s.v ELSE cs
        /\ trace' = Append(trace, Event("pin", s.line, s.v, cs', <<>>))
        /\ panel' = PanelAfterPin(s.line, s.v)
    /\ todo' = Tail(todo)
    /\ UNCHANGED <<busy, op, exc, power>>

\* self.spi.write(bytes(...)) transfers the bytes
StepWrite ==
    /\ todo # <<>>
    /\ Head(todo).k = "write"
    /\ BytesOk(Head(todo).data)
    /\ trace' = Append(trace, Event("write", "spi", dc, cs,
                                     bytes(Head(todo).data)))
    /\ panel' = PanelAfterWrite(bytes(Head(todo).data))
    /\ todo' = Tail(todo)
    /\ UNCHANGED <<rst, dc, cs, busy, op, exc, power>>

\* bytes(...) raises ValueError: the exception leaves the call at once
StepWriteValueError ==
    /\ todo # <<>>
    /\ Head(todo).k = "write"
    /\ ~BytesOk(Head(todo).data)
    /\ exc' = "ValueError"
    /\ todo' = <<>>
    /\ UNCHANGED <<rst, dc, cs, busy, op, trace, power, panel>>

\* self.spi.write raises (transport failure): the exception leaves the call
StepWriteFails ==
    /\ todo # <<>>
    /\ Head(todo).k = "write"
    /\ BytesOk(Head(todo).data)
    /\ exc' = "OSError"
    /\ todo' = <<>>
    /\ UNCHANGED <<rst, dc, cs, busy, op, trace, power, panel>>

\* while self.busy.value() == 1: the pin reads busy, the loop goes on
StepPollBusy ==
    /\ todo # <<>>
    /\ Head(todo).k = "wait"
    /\ panel \in {"busy", "unknown"}
    /\ busy' = 1
    /\ UNCHANGED <<rst, dc, cs, todo, op, exc, trace, power, panel>>

\* the pin reads idle, the loop ends
StepPollIdle ==
    /\ todo # <<>>
    /\ Head(todo).k = "wait"
    /\ panel \in {"idle", "unknown"}
    /\ busy' = 0
    /\ todo' = Tail(todo)
    /\ UNCHANGED <<rst, dc, cs, op, exc, trace, power, panel>>

\* hw_reset, init or deep_sleep returns
StepReturn ==
    /\ todo # <<>>
    /\ Head(todo).k = "ret"
    /\ power' = Lifecycle(Head(todo).line, power)
    /\ todo' = Tail(todo)
    /\ UNCHANGED <<rst, dc, cs, busy, op, exc, trace, panel>>

Next ==
    \/ Call_power_off
    \/ Call_hw_reset
    \/ Call_sw_reset
    \/ Call_init
    \/ Call_turn_on_display
    \/ Call_deep_sleep
    \/ Call_set_window
    \/ Call_set_cursor
    \/ Call_set_border
    \/ Call_display
    \/ Call_clear
    \/ StepSetPin
    \/ StepWrite
    \/ StepWriteValueError
    \/ StepWriteFails
    \/ StepPollBusy
    \/ StepPollIdle
    \/ StepReturn

Spec == Init /\ [][Next]_vars

(* Sweep of the address operations: set_window and set_cursor are functions *)
(* of their arguments alone, so they are also run once for each argument of *)
(* a dense set, from the state init() leaves behind.                        *)

\* both X coordinates over the whole range; each Y coordinate over the whole
\* range against the other at the top, at the bottom and equal to it
SweepWindows ==
    {<<x0, 0, x1, DISPLAY_HEIGHT - 1>> : x0 \in XRange, x1 \in XRange}
    \cup {<<0, y0, DISPLAY_WIDTH - 1, y1>> :
             y0 \in YRange, y1 \in {0, DISPLAY_HEIGHT - 1}}
    \cup {<<0, y0, DISPLAY_WIDTH - 1, y1>> :
             y0 \in {0, DISPLAY_HEIGHT - 1}, y1 \in YRange}
    \cup {<<0, y, DISPLAY_WIDTH - 1, y>> : y \in YRange}

SweepCursors ==
    {<<x, 0>> : x \in XRange} \cup {<<0, y>> : y \in YRange}
    \cup {<<DISPLAY_WIDTH - 1, DISPLAY_HEIGHT - 1>>}

InitSweep ==
    /\ rst = 1
    /\ dc = 1
    /\ cs = 1
    /\ busy = 0
    /\ exc = "none"
    /\ trace = <<>>
    /\ power = "Ready"
    /\ panel = "unknown"
    /\ \/ \E a \in SweepWindows :
            /\ op = [again |-> FALSE, args |-> a, from |-> "Ready",
                     image |-> <<>>, name |-> "set_window", prev |-> <<>>]
            /\ todo = set_window(a[1], a[2], a[3], a[4])
       \/ \E a \in SweepCursors :
            /\ op = [again |-> FALSE, args |-> a, from |-> "Ready",
                     image |-> <<>>, name |-> "set_cursor", prev |-> <<>>]
            /\ todo = set_cursor(a[1], a[2])

NextSweep ==
    \/ StepSetPin
    \/ StepWrite
    \/ StepWriteFails

SpecSweep == InitSweep /\ [][NextSweep]_vars

---------------------------------------------------------------------------
(* Observations on the trace of a call *)

\* a one-byte write framed as a command: data/command low, chip select low
Cmd(c) == Event("write", "spi", 0, 0, << <<c, 1>> >>)

\* a one-byte write framed as data: data/command high, chip select low
Dat(d) == Event("write", "spi", 1, 0, << <<d, 1>> >>)

\* a burst framed as data
Burst(b) == Event("write", "spi", 1, 0, b)

\* the last call returned to its caller without an exception
Returned == Idle /\ exc = "none" /\ op.name # "__init__"

\* the last call was ended by an exception
Raised == Idle /\ exc # "none"

\* s is an initial part of t
IsPrefix(s, t) == Len(s) <= Len(t) /\ SubSeq(t, 1, Len(s)) = s

InPanel(x, y) ==
    x \in 0 .. (DISPLAY_WIDTH - 1) /\ y \in 0 .. (DISPLAY_HEIGHT - 1)

---------------------------------------------------------------------------
(* C1: display (write_frame) called with a buffer whose length is not       *)
(* stride*height = 4000 raises ConfigurationError and causes no bus traffic *)
(* at all: no pin is changed and nothing is written for that call.          *)
C1_BadLengthRejected ==
    (op.name = "display" /\ BufLen(op.image) # FrameLen)
        => /\ trace = <<>>
           /\ (Idle => exc = "ConfigurationError")

(* C2: whenever send_command, send_data or send_bytes is left by an error   *)
(* raised inside the chip-select window, chip select is back at 1 when the  *)
(* error reaches the caller.                                                *)
C2_SelectReleasedOnError == Raised => cs = 1

(* C3: an operation other than a hardware reset that is called after        *)
(* deep_sleep, with no hardware reset since, puts no byte on the bus and    *)
(* raises ConfigurationError.  (init begins with the hardware reset and     *)
(* power_off writes nothing: neither is among the barred operations.)       *)
SleepBarred ==
    {"sw_reset", "set_window", "set_cursor", "set_border", "display",
     "turn_on_display", "clear", "deep_sleep"}

C3_SleepRejectsAll ==
    (op.from = "Sleep" /\ op.name \in SleepBarred)
        => /\ Writes(trace) = <<>>
           /\ (Idle => exc = "ConfigurationError")

(* C4: as long as no hardware reset has completed since construction, no    *)
(* command or data byte has been written to the bus.                        *)
C4_NoByteBeforeReset == power = "Unknown" => Writes(trace) = <<>>

(* C5: opcode 0x24 (write RAM) and opcode 0x20 (activate update) are sent   *)
(* only by calls made in stage Ready, that is after a hardware reset and a  *)
(* completed configuration with no deep sleep or reset since.               *)
C5_WriteRefreshOnlyInReady ==
    (\E i \in 1..Len(trace) : trace[i] \in {Cmd(36), Cmd(32)})
        => op.from = "Ready"

(* C6: set_window called with a corner outside 0 <= x < 122, 0 <= y < 250   *)
(* raises ConfigurationError before any hardware access: nothing of the     *)
(* window, not even its X half, is written.                                 *)
C6_WindowValidated ==
    (op.name = "set_window"
        /\ ~(InPanel(op.args[1], op.args[2]) /\ InPanel(op.args[3], op.args[4])))
        => /\ trace = <<>>
           /\ (Idle => exc = "ConfigurationError")

\* the byte carried by a one-byte write
Byte(e) == e.data[1][1]

\* the payloads a method body writes to the bus, in order
Payloads(body) ==
    LET w == SelectSeq(body, LAMBDA st : st.k = "write")
    IN [i \in 1..Len(w) |-> bytes(w[i].data)]

\* number of occurrences of e in w
Count(w, e) == Cardinality({i \in 1..Len(w) : w[i] = e})

(* C7: for x0, x1 in [0, width) a completed set_window sends, after opcode  *)
(* 0x44, exactly the two data bytes (x0 >> 3) & 0xFF and (x1 >> 3) & 0xFF   *)
(* (the next write is the opcode 0x45), so every x with the same bits above *)
(* the low three yields the same X byte as x0.                              *)
C7_XBytes ==
    (op.name = "set_window" /\ Returned
        /\ op.args[1] \in 0 .. (DISPLAY_WIDTH - 1)
        /\ op.args[3] \in 0 .. (DISPLAY_WIDTH - 1))
        => LET w == Writes(trace) IN
           /\ w[1] = Cmd(68)
           /\ w[2] = Dat((op.args[1] \div 8) % 256)
           /\ w[3] = Dat((op.args[3] \div 8) % 256)
           /\ w[4] = Cmd(69)
           /\ \A x \in 0 .. (DISPLAY_WIDTH - 1) :
                (x \div 8 = op.args[1] \div 8)
                    => Payloads(set_window(x, op.args[2], op.args[3],
                                           op.args[4]))[2] = w[2].data

\* set_window(5, ...) has completed and its X start byte is that of x = 0
C7_Witness ==
    /\ op.name = "set_window" /\ Returned
    /\ op.args[1] = 5 /\ op.args[3] = DISPLAY_WIDTH - 1
    /\ Writes(trace)[2] = Dat(0)
    /\ Writes(trace)[3] = Dat(15)

(* C8: for y0, y1 in [0, height) a completed set_window sends, after opcode *)
(* 0x45, the four data bytes y0 low, y0 high, y1 low, y1 high, each pair     *)
(* decoding little-endian (low + 256 * high) to the given y, and nothing    *)
(* after them; set_window(0, 0, 121, 249) puts on the bus exactly           *)
(* 0x44, 0x00, 0x0F, 0x45, 0x00, 0x00, 0xF9, 0x00.                          *)
C8_YBytes ==
    (op.name = "set_window" /\ Returned
        /\ op.args[2] \in 0 .. (DISPLAY_HEIGHT - 1)
        /\ op.args[4] \in 0 .. (DISPLAY_HEIGHT - 1))
        => LET w == Writes(trace) IN
           /\ Len(w) = 8
           /\ w[4] = Cmd(69)
           /\ \A i \in 5..8 : w[i] = Dat(Byte(w[i])) /\ Byte(w[i]) \in 0..255
           /\ Byte(w[5]) + 256 * Byte(w[6]) = op.args[2]
           /\ Byte(w[7]) + 256 * Byte(w[8]) = op.args[4]
           /\ (op.args = <<0, 0, 121, 249>>
                 => w = <<Cmd(68), Dat(0), Dat(15),
                          Cmd(69), Dat(0), Dat(0), Dat(249), Dat(0)>>)

\* the full-panel window has been written
C8_Witness ==
    /\ op.name = "set_window" /\ Returned
    /\ op.args = <<0, 0, 121, 249>>
    /\ Len(Writes(trace)) = 8
    /\ Byte(Writes(trace)[7]) = 249

(* C9: a completed init (the Reset -> Ready transition) has sent opcode     *)
(* 0x01 exactly once, followed by the data bytes 0xF9, 0x00, 0x00 and then  *)
(* an opcode, and opcode 0x11 exactly once, followed by the data byte 0x03  *)
(* and then an opcode; no other operation sends opcode 0x01 or 0x11.        *)
C9_ConfigureOnce ==
    LET w == Writes(trace) IN
    /\ (op.name = "init" /\ Returned)
        => /\ power = "Ready"
           /\ Count(w, Cmd(1)) = 1
           /\ Count(w, Cmd(17)) = 1
           /\ \A i \in 1..Len(w) :
                /\ (w[i] = Cmd(1))
                    => /\ i + 4 <= Len(w)
                       /\ SubSeq(w, i + 1, i + 3) = <<Dat(249), Dat(0), Dat(0)>>
                       /\ w[i + 4].v = 0
                /\ (w[i] = Cmd(17))
                    => /\ i + 2 <= Len(w)
                       /\ w[i + 1] = Dat(3)
                       /\ w[i + 2].v = 0
    /\ (op.name = "init") => Count(w, Cmd(1)) <= 1 /\ Count(w, Cmd(17)) <= 1
    /\ (op.name # "init") => Count(w, Cmd(1)) = 0 /\ Count(w, Cmd(17)) = 0

\* init, called after a bare hardware reset, has completed
C9_Witness ==
    /\ op.name = "init" /\ Returned
    /\ op.from = "Reset" /\ power = "Ready"
    /\ Count(Writes(trace), Cmd(1)) = 1

(* C10: a display (write_frame) call sends, in this order and nothing else, *)
(* 0x4E, 0x00, 0x4F, 0x00, 0x00 (set_cursor(0, 0)), opcode 0x24, the whole  *)
(* buffer as one bus write inside one chip-select window, then 0x22, 0xF7,  *)
(* 0x20; 0x20 is never sent before the whole buffer, the reset line is not  *)
(* touched, and the call returns only after busy has read idle.             *)
C10_DisplaySequence ==
    (op.name = "display")
        => LET w == Writes(trace)
               expected == <<Cmd(78), Dat(0), Cmd(79), Dat(0), Dat(0),
                             Cmd(36), Burst(bytes(op.image)),
                             Cmd(34), Dat(247), Cmd(32)>>
           IN
           /\ IsPrefix(w, expected)
           /\ \A i \in 1..Len(w) :
                (w[i] = Cmd(32))
                    => \E j \in 1..(i - 1) :
                        /\ w[j] = Burst(bytes(op.image))
                        /\ BufLen(w[j].data) = BufLen(op.image)
           /\ \A i \in 1..Len(trace) :
                /\ trace[i].line # "rst"
                /\ (trace[i].ev = "write")
                    => /\ i > 1
                       /\ trace[i - 1] = Event("pin", "cs", 0, 0, <<>>)
                       /\ (i < Len(trace)
                            => trace[i + 1] = Event("pin", "cs", 1, 1, <<>>))
           /\ Returned => (w = expected /\ busy = 0)

\* a full frame has been written and refreshed
C10_Witness ==
    /\ op.name = "display" /\ Returned
    /\ BufLen(op.image) = FrameLen
    /\ Len(Writes(trace)) = 10
    /\ Writes(trace)[7] = Burst(op.image)

\* the pin writes and bus writes recorded in a trace, without the levels the
\* other lines had at the time
Seen(tr) ==
    [i \in 1..Len(tr) |->
        <<tr[i].ev, tr[i].line, IF tr[i].ev = "pin" THEN tr[i].v ELSE 0,
          tr[i].data>>]

\* the pin writes and bus writes a method body performs, in order
Planned(body) ==
    LET b == SelectSeq(body, LAMBDA st : st.k \in {"pin", "write"})
    IN [i \in 1..Len(b) |-> <<b[i].k, b[i].line, b[i].v, bytes(b[i].data)>>]

(* C11: clear(fill_byte) builds a buffer of exactly stride*height =          *)
(* ceil(122/8)*250 = 4000 bytes, all equal to fill_byte, and its pin writes  *)
(* and bus writes are, at every moment and at its return, those of display   *)
(* (write_frame) called with that buffer.                                    *)
C11_ClearIsDisplay ==
    (op.name = "clear")
        => LET buffer == << <<op.args[1], 4000>> >>
               w == Writes(trace)
           IN
           /\ FrameLen = 4000
           /\ IsPrefix(Seen(trace), Planned(display(buffer)))
           /\ (Len(w) >= 7)
                => /\ w[7] = Burst(buffer)
                   /\ BufLen(w[7].data) = FrameLen
           /\ Returned
                => /\ Seen(trace) = Planned(display(buffer))
                   /\ Len(w) = 10
                   /\ busy = 0

\* clear() with the default fill 0xFF has written the white frame
C11_Witness ==
    /\ op.name = "clear" /\ Returned
    /\ op.args = <<255>>
    /\ Writes(trace)[7] = Burst(<< <<255, 4000>> >>)

(* C12: turn_on_display (refresh) called in Ready sends exactly 0x22, 0xF7,  *)
(* 0x20 and returns only after busy has read idle, leaving the stage Ready;  *)
(* called a second time right after, it sends the same bytes again.          *)
C12_RefreshRepeats ==
    (op.name = "turn_on_display" /\ op.from = "Ready")
        => LET w == Writes(trace) IN
           /\ IsPrefix(w, <<Cmd(34), Dat(247), Cmd(32)>>)
           /\ power = "Ready"
           /\ (todo # <<>> /\ Head(todo).k = "wait") => Len(w) = 3
           /\ Returned
                => /\ w = <<Cmd(34), Dat(247), Cmd(32)>>
                   /\ busy = 0
                   /\ (op.again => op.prev = w)

\* the second of two refreshes in a row has returned
C12_Witness ==
    /\ op.name = "turn_on_display" /\ Returned
    /\ op.from = "Ready" /\ power = "Ready"
    /\ op.again
    /\ op.prev = <<Cmd(34), Dat(247), Cmd(32)>>

(* C13: hw_reset writes the levels 1, 0, 1 to the reset pin, in this order,  *)
(* touches no other pin and writes nothing to the bus, polls busy only       *)
(* after the third level and returns only after busy has read idle; at its   *)
(* return the stage is Reset, whatever it was before.                        *)
C13_ResetPulse ==
    (op.name = "hw_reset")
        => LET pulse == << <<"pin", "rst", 1, <<>> >>,
                           <<"pin", "rst", 0, <<>> >>,
                           <<"pin", "rst", 1, <<>> >> >>
           IN
           /\ IsPrefix(Seen(trace), pulse)
           /\ (todo # <<>> /\ Head(todo).k \in {"wait", "ret"})
                => Seen(trace) = pulse
           /\ (todo # <<>> /\ Head(todo).k = "ret") => busy = 0
           /\ exc = "none"
           /\ Returned
                => /\ Seen(trace) = pulse
                   /\ rst = 1
                   /\ busy = 0
                   /\ power = "Reset"

\* a hardware reset made in deep sleep has returned
C13_Witness ==
    /\ op.name = "hw_reset" /\ Returned
    /\ op.from = "Sleep"
    /\ power = "Reset"

(* C14: sw_reset is valid only in the stages Reset and Ready: called in any  *)
(* other stage it is rejected before any hardware access; called in Reset    *)
(* or Ready it sends the one command byte 0x12 and no data byte, returns     *)
(* only after busy has read idle, and leaves the stage as it was.            *)
C14_SoftwareReset ==
    (op.name = "sw_reset")
        => LET w == Writes(trace) IN
           /\ (op.from \notin {"Reset", "Ready"})
                => /\ trace = <<>>
                   /\ (Idle => exc = "ConfigurationError")
           /\ (op.from \in {"Reset", "Ready"})
                => /\ IsPrefix(w, <<Cmd(18)>>)
                   /\ power = op.from
                   /\ (Returned => (w = <<Cmd(18)>> /\ busy = 0))

\* what holds of a deep_sleep call at every moment
DeepSleepCall ==
    (op.name = "deep_sleep")
        => LET w == Writes(trace) IN
           /\ IsPrefix(w, <<Cmd(16), Dat(1)>>)
           /\ \A i \in 1..Len(todo) : todo[i].k # "wait"
           /\ Returned
                => /\ w = <<Cmd(16), Dat(1)>>
                   /\ (op.from = "Ready" => power = "Sleep")

\* a step that leaves the stage Sleep is the return of a hardware reset
LeavesSleepByReset ==
    (power = "Sleep" /\ power' # "Sleep")
        => /\ power' = "Reset"
           /\ Head(todo) = Return("hw_reset")

\* a step that reaches the stage Ready is the return of init, from Reset
ReadyByInit ==
    (power # "Ready" /\ power' = "Ready")
        => /\ power = "Reset"
           /\ Head(todo) = Return("init")
           /\ op.name = "init"

(* C15: deep_sleep sends exactly opcode 0x10 and the data byte 0x01, never  *)
(* polls busy, and called in Ready leaves the stage Sleep; the stage Sleep  *)
(* is left only by the return of a hardware reset (to Reset), and Ready is  *)
(* reached again only by a complete init after that reset.                  *)
C15_DeepSleep ==
    /\ []DeepSleepCall
    /\ [][LeavesSleepByReset]_vars
    /\ [][ReadyByInit]_vars

\* deep_sleep called in Ready has returned
C15_Witness ==
    /\ op.name = "deep_sleep" /\ Returned
    /\ op.from = "Ready"
    /\ power = "Sleep"
    /\ Writes(trace) = <<Cmd(16), Dat(1)>>

C17_CursorXLikeWindow ==
    (op.name = "set_cursor" /\ Returned
        /\ op.args[1] \in 0 .. (DISPLAY_WIDTH - 1))
        => LET w == Writes(trace) IN
           /\ w[2].data = Payloads(set_window(op.args[1], op.args[2],
                                              DISPLAY_WIDTH - 1,
                                              DISPLAY_HEIGHT - 1))[2]
           /\ Byte(w[2]) \in 0..15

(* C18: framing, over every trace of operations: each bus write is made     *)
(* with chip select asserted (0), directly after the write of 0 to chip     *)
(* select and directly before the write of 1 to it; data/command is set     *)
(* before chip select is asserted, to 0 for an opcode and to 1 for a        *)
(* parameter or a burst, and is never changed while chip select is          *)
(* asserted; no chip-select window is left open or without its bus write.   *)
C18_Framing ==
    /\ \A i \in 1..Len(trace) :
        LET e == trace[i] IN
        /\ (e.ev = "write")
            => /\ e.sel = 0
               /\ i > 2
               /\ trace[i - 1] = Event("pin", "cs", 0, 0, <<>>)
               /\ trace[i - 2].line = "dc" /\ trace[i - 2].v = e.v
               /\ (i < Len(trace)
                    => trace[i + 1] = Event("pin", "cs", 1, 1, <<>>))
        /\ (e.ev = "pin" /\ e.line = "dc") => e.sel = 1
        /\ (e.ev = "pin" /\ e.line = "cs" /\ e.v = 0 /\ i < Len(trace))
            => trace[i + 1].ev = "write"
    /\ (Writes(trace) # <<>>) => Writes(trace)[1].v = 0
    /\ (Idle /\ trace # <<>>) => cs = 1

\* the operations whose body ends in, or contains, a wait for idle
Waiting ==
    {"hw_reset", "sw_reset", "init", "turn_on_display", "display", "clear"}

\* the running call is in the busy-poll loop
InPoll == todo # <<>> /\ Head(todo).k = "wait"

\* a call that waits for idle has returned only after busy read idle
ReturnedIdle == (Returned /\ op.name \in Waiting) => busy = 0

\* a reading of busy in the loop changes nothing but the level read
BusyKeepsWaiting ==
    (InPoll /\ busy' = 1)
        => UNCHANGED <<rst, dc, cs, todo, op, exc, trace, power>>

\* the loop is left only by a reading of idle, and not by an exception
LeftOnlyWhenIdle ==
    (InPoll /\ todo' # todo)
        => /\ busy' = 0
           /\ todo' = Tail(todo)
           /\ UNCHANGED <<rst, dc, cs, op, exc, trace, power>>

(* C19: an operation that waits for idle returns only when the most recent  *)
(* reading of busy was idle (0); as long as busy reads 1 it stays in the    *)
(* poll loop and changes no line and writes nothing; the loop has no other  *)
(* exit (no timeout, no cancellation).                                      *)
C19_WaitForIdle ==
    /\ []ReturnedIdle
    /\ [][BusyKeepsWaiting]_vars
    /\ [][LeftOnlyWhenIdle]_vars

\* display has written everything and is held in the loop by a busy panel
C19_Witness ==
    /\ op.name = "display" /\ InPoll
    /\ busy = 1
    /\ Len(Writes(trace)) = 10

(* The driver when no bus write fails and the panel answers: every step of  *)
(* a running call is eventually taken (the interpreter runs the blocking    *)
(* call to its end), and the poll loop eventually reads idle.               *)
NextFair ==
    \/ Call_power_off
    \/ Call_hw_reset
    \/ Call_sw_reset
    \/ Call_init
    \/ Call_turn_on_display
    \/ Call_deep_sleep
    \/ Call_set_window
    \/ Call_set_cursor
    \/ Call_set_border
    \/ Call_display
    \/ Call_clear
    \/ StepSetPin
    \/ StepWrite
    \/ StepWriteValueError
    \/ StepPollBusy
    \/ StepPollIdle
    \/ StepReturn

SpecFair ==
    /\ Init
    /\ [][NextFair]_vars
    /\ WF_vars(StepSetPin)
    /\ WF_vars(StepWrite)
    /\ WF_vars(StepWriteValueError)
    /\ WF_vars(StepReturn)
    /\ WF_vars(StepPollIdle)

\* the operations that never call wait_until_idle
NonWaiting ==
    {"deep_sleep", "set_window", "set_cursor", "set_border", "power_off"}

\* a call that does not wait has no reading of busy ahead of it
NoPollAhead ==
    (op.name \in NonWaiting)
        => \A i \in 1..Len(todo) : todo[i].k # "wait"

\* while a call that does not wait runs, the level last read stays as it was
BusyNotRead ==
    (op.name \in NonWaiting /\ ~Idle) => busy' = busy

(* C20: when busy eventually reads idle and no bus write fails, every call  *)
(* of a public operation eventually ends, and ends without a bus error;     *)
(* deep_sleep, set_window, set_cursor and set_border end without reading    *)
(* the busy line at all.                                                    *)
C20_Termination ==
    /\ (~Idle) ~> (Idle /\ exc # "OSError")
    /\ []NoPollAhead
    /\ [][BusyNotRead]_vars

\* set_border has returned, both bytes written, the busy level last read
\* (by an earlier call, or never) still 1: it did not read the line
C20_Witness ==
    /\ op.name = "set_border" /\ Returned
    /\ busy = 1
    /\ Len(Writes(trace)) = 2

\* a bus write of the running call has raised
WriteFailed == exc = "OSError"

(* C21: when a bus write fails the error reaches the caller at once: the    *)
(* call is over with nothing left to do, the failed write was not made      *)
(* again (the last access recorded is the assertion of chip select that     *)
(* opened its window), and the stage is the one the call started in.        *)
C21_FailureSurfaces ==
    WriteFailed
        => /\ Idle
           /\ trace # <<>>
           /\ trace[Len(trace)] = Event("pin", "cs", 0, 0, <<>>)
           /\ power = op.from

---------------------------------------------------------------------------
(* The companion web server: the POST /display handler of start_webserver *)

\* the size of one socket read
RecvMax == 1024

\* the Content-Length values and the body sizes a client may send
BodyLengths ==
    {0, 16} \cup ((FrameLen - BufSlack) .. (FrameLen + BufSlack))

\* the number of body bytes that arrive with the headers in the first read
FirstLengths == {0, 16}

\* the bytes of the bodies sent
BodyBytes == {0, 255}

Min(a, b) == IF a <= b THEN a ELSE b

\* len(binary_data) after the read loop: have bytes are in hand, remaining
\* bytes are still expected, left bytes are still to come from the client
\* (an empty chunk, the client having closed, ends the loop)
RECURSIVE RecvLoop(_, _, _)
RecvLoop(have, remaining, left) ==
    IF remaining > 0
    THEN LET chunk == Min(Min(remaining, RecvMax), left) IN
         IF chunk = 0 THEN have
         ELSE RecvLoop(have + chunk, remaining - chunk, left - chunk)
    ELSE have

\* len(binary_data) for a request declaring content_length, whose client
\* sends sent body bytes, first of them with the headers
Received(content_length, sent, first) ==
    RecvLoop(first, content_length - first, sent - first)

\* if len(binary_data) == content_length
accepts(content_length, received) == received = content_length

\* a buffer of n bytes f
Body(f, n) == IF n = 0 THEN <<>> ELSE << <<f, n>> >>

\* a POST /display request passes the length test: epd.init() and
\* epd.display(binary_data) run
Post_display ==
    /\ Idle
    /\ \E content_length \in BodyLengths, sent \in BodyLengths,
          first \in FirstLengths, f \in BodyBytes :
        LET received == Received(content_length, sent, first) IN
        /\ first <= sent
        /\ accepts(content_length, received)
        /\ Enter("POST /display", <<content_length, sent, first>>,
                 Body(f, received), init \o display(Body(f, received)))

\* a POST /display request fails the length test: Exception('Incomplete
\* data received'), answered with 500; the display is not touched
Post_display_incomplete ==
    /\ Idle
    /\ \E content_length \in BodyLengths, sent \in BodyLengths,
          first \in FirstLengths, f \in BodyBytes :
        LET received == Received(content_length, sent, first) IN
        /\ first <= sent
        /\ ~accepts(content_length, received)
        /\ op' = [again |-> FALSE, args |-> <<content_length, sent, first>>,
                  from |-> power, image |-> Body(f, received),
                  name |-> "POST /display", prev |-> <<>>]
    /\ exc' = "Exception"
    /\ todo' = <<>>
    /\ trace' = <<>>
    /\ UNCHANGED <<rst, dc, cs, busy, power, panel>>

NextServer ==
    \/ Post_display
    \/ Post_display_incomplete
    \/ StepSetPin
    \/ StepWrite
    \/ StepWriteFails
    \/ StepPollBusy
    \/ StepPollIdle
    \/ StepReturn

SpecServer == Init /\ [][NextServer]_vars

(* C22: the server hands display() only bodies of exactly stride*height =   *)
(* 4000 bytes: whenever the handler has reached the display (its first      *)
(* access is made), the body it passes has length 4000.                     *)
C22_OnlyFullFrames ==
    (op.name = "POST /display" /\ trace # <<>>)
        => BufLen(op.image) = FrameLen

\* the bus writes of init, in order
InitWrites ==
    << Cmd(18),
       Cmd(1), Dat(249), Dat(0), Dat(0),
       Cmd(17), Dat(3),
       Cmd(68), Dat(0), Dat(15),
       Cmd(69), Dat(0), Dat(0), Dat(249), Dat(0),
       Cmd(60), Dat(192) >>

\* the reset pulse, as recorded with chip select at level sel
ResetPulse(sel) ==
    << Event("pin", "rst", 1, sel, <<>>),
       Event("pin", "rst", 0, sel, <<>>),
       Event("pin", "rst", 1, sel, <<>>) >>

\* the waits for idle the running call has still to go through, the one it
\* is in included
WaitsAhead == Len(SelectSeq(todo, LAMBDA st : st.k = "wait"))

\* the pin writes and bus writes of init: the pulse, and for each byte the
\* write of data/command, the two of chip select and the bus write
InitAccesses == 3 + 4 * Len(InitWrites)

(* C23: init works in a fixed order.  Its first three accesses are the      *)
(* reset pulse; its bus writes are 0x12, 0x01 f9 00 00, 0x11 03,            *)
(* 0x44 00 0f, 0x45 00 00 f9 00, 0x3c c0, in this order; it has three       *)
(* waits for idle, entered right after the third access (the pulse), right  *)
(* after the seventh (chip select released after 0x12) and right after the  *)
(* last (chip select released after the border byte), each over before the  *)
(* next access; from 0x12 on, outside the poll loops, the level last read   *)
(* is idle; it returns, in Ready, only after the last wait read idle.       *)
C23_InitOrder ==
    (op.name = "init")
        => LET w == Writes(trace) IN
           /\ IsPrefix(w, InitWrites)
           /\ \E sel \in {0, 1} :
                \/ IsPrefix(trace, ResetPulse(sel))
                \/ IsPrefix(ResetPulse(sel), trace)
           /\ (w # <<>> /\ ~InPoll) => busy = 0
           /\ (exc = "none")
                => WaitsAhead =
                     CASE Len(trace) < 3 -> 3
                       [] Len(trace) = 3 -> IF InPoll THEN 3 ELSE 2
                       [] Len(trace) \in 4..6 -> 2
                       [] Len(trace) = 7 -> IF InPoll THEN 2 ELSE 1
                       [] Len(trace) \in 8 .. (InitAccesses - 1) -> 1
                       [] OTHER -> IF InPoll THEN 1 ELSE 0
           /\ (todo # <<>> /\ Head(todo).k = "ret")
                => Len(w) = IF Head(todo).line = "init"
                             THEN Len(InitWrites) ELSE 0
           /\ Returned
                => /\ w = InitWrites
                   /\ busy = 0
                   /\ power = "Ready"

\* init has returned from Sleep with all seventeen bytes written
C23_Witness ==
    /\ op.name = "init" /\ Returned
    /\ op.from = "Sleep"
    /\ power = "Ready"
    /\ Writes(trace) = InitWrites

\* the opcodes the driver may send, each with the number of parameter bytes
\* that follow it (0x24 is followed by one burst instead)
OpcodeArity ==
    (1 :> 3) @@ (16 :> 1) @@ (17 :> 1) @@ (18 :> 0) @@ (32 :> 0)
    @@ (34 :> 1) @@ (60 :> 1) @@ (68 :> 2) @@ (69 :> 4) @@ (78 :> 1)
    @@ (79 :> 2)

\* a bus write at command level carrying one byte
IsOpcode(e) == e.v = 0 /\ BufLen(e.data) = 1

\* a bus write at data level carrying one byte
IsParameter(e) == e.v = 1 /\ BufLen(e.data) = 1

\* the bus writes w are a sequence of groups: an opcode of the table and
\* then exactly its number of parameter bytes, or 0x24 and then exactly one
\* write at data level
RECURSIVE Grouped(_)
Grouped(w) ==
    IF w = <<>> THEN TRUE
    ELSE LET c == Head(w) IN
         /\ IsOpcode(c)
         /\ IF Byte(c) = 36
            THEN /\ Len(w) >= 2
                 /\ w[2].v = 1
                 /\ Grouped(SubSeq(w, 3, Len(w)))
            ELSE /\ Byte(c) \in DOMAIN OpcodeArity
                 /\ LET n == OpcodeArity[Byte(c)] IN
                    /\ Len(w) >= 1 + n
                    /\ \A i \in 2 .. (1 + n) : IsParameter(w[i])
                    /\ Grouped(SubSeq(w, 2 + n, Len(w)))

(* C24: the bus writes of every call that returns normally are a sequence   *)
(* of groups, each an opcode of the table followed by exactly its number    *)
(* of parameter bytes (0x01:3, 0x10:1, 0x11:1, 0x12:0, 0x20:0, 0x22:1,      *)
(* 0x3c:1, 0x44:2, 0x45:4, 0x4e:1, 0x4f:2) or, for 0x24, by exactly one     *)
(* burst.  Every call starts a new group, so the bus trace of a sequence    *)
(* of such calls is the concatenation of their groups.                      *)
C24_OpcodeArity == Returned => Grouped(Writes(trace))

\* display has returned: 0x4e, 0x4f, 0x24 with a full frame as its burst,
\* 0x22 and 0x20
C24_Witness ==
    /\ op.name = "display" /\ Returned
    /\ Len(Writes(trace)) = 10
    /\ Writes(trace)[6] = Cmd(36)
    /\ BufLen(Writes(trace)[7].data) = FrameLen
    /\ Writes(trace)[10] = Cmd(32)

---------------------------------------------------------------------------
(* The driver with a panel that is busy only after a reset pulse, after     *)
(* opcode 0x12 and after opcode 0x20, and becomes idle by itself            *)

\* the controller finishes what it was doing and lowers the busy line
PanelDone ==
    /\ panel = "busy"
    /\ panel' = "idle"
    /\ UNCHANGED <<rst, dc, cs, busy, todo, op, exc, trace, power>>

InitPanel ==
    /\ rst \in {0, 1}
    /\ dc \in {0, 1}
    /\ cs \in {0, 1}
    /\ busy \in {0, 1}
    /\ todo = <<>>
    /\ op = [again |-> FALSE, args |-> <<>>, from |-> "Unknown",
             image |-> <<>>, name |-> "__init__", prev |-> <<>>]
    /\ exc = "none"
    /\ trace = <<>>
    /\ power = "Unknown"
    /\ panel = "idle"

NextPanel ==
    \/ Call_init
    \/ Call_display
    \/ Call_clear
    \/ Call_turn_on_display
    \/ StepSetPin
    \/ StepWrite
    \/ StepWriteValueError
    \/ StepWriteFails
    \/ StepPollBusy
    \/ StepPollIdle
    \/ StepReturn
    \/ PanelDone

SpecPanel == InitPanel /\ [][NextPanel]_vars

\* the step is a bus write of the running call
WritesByte == Len(Writes(trace')) > Len(Writes(trace))

(* C25: with a panel that raises busy only in response to a reset pulse,    *)
(* to opcode 0x12 or to opcode 0x20 and lowers it by itself, in any         *)
(* sequence of init, display, clear and turn_on_display every bus write     *)
(* of the driver is made while the panel is idle.                           *)
C25_NoWriteWhileBusy == [][WritesByte => panel = "idle"]_vars

\* display is held in its poll loop by the refresh it has just started
C25_Witness ==
    /\ op.name = "display" /\ InPoll
    /\ panel = "busy"
    /\ Len(Writes(trace)) = 10

\* the number of RAM bytes in the address window that the bus writes w of
\* a returned init have set: X in bytes w[9] .. w[10], Y in lines
\* w[12] + 256 * w[13] .. w[14] + 256 * w[15]
WindowBytes(w) ==
    (Byte(w[10]) - Byte(w[9]) + 1)
    * ((Byte(w[14]) + 256 * Byte(w[15]))
       - (Byte(w[12]) + 256 * Byte(w[13])) + 1)

(* C26: the address window init sets spans exactly the frame buffer: its    *)
(* byte columns times its lines are 16 * 250 = 4000 = stride * height,      *)
(* the length of the buffer clear() writes; and the gate-count byte sent    *)
(* with opcode 0x01 is height - 1, the last line of the window.             *)
C26_WindowIsFrame ==
    (op.name = "init" /\ Returned)
        => LET w == Writes(trace) IN
           /\ w[8] = Cmd(68) /\ w[11] = Cmd(69)
           /\ WindowBytes(w) = 16 * 250
           /\ WindowBytes(w) = FrameLen
           /\ \A color \in FillBytes :
                WindowBytes(w) = BufLen(Payloads(clear(color))[7])
           /\ w[2] = Cmd(1)
           /\ Byte(w[3]) = DISPLAY_HEIGHT - 1
           /\ Byte(w[3]) = Byte(w[14]) + 256 * Byte(w[15])

\* init has returned with the window 0..15 by 0..249 and the gate count 249
C26_Witness ==
    /\ op.name = "init" /\ Returned
    /\ Byte(Writes(trace)[9]) = 0
    /\ Byte(Writes(trace)[10]) = 15
    /\ Byte(Writes(trace)[14]) = 249
    /\ Byte(Writes(trace)[3]) = 249

\* the three lines as power_off leaves them
PoweredOff == rst = 0 /\ dc = 0 /\ cs = 0

(* C27: between operations chip select is released (1) after every          *)
(* operation that wrote at least one byte and returned normally; a          *)
(* returned operation that has itself written chip select and left it       *)
(* asserted is power_off, which writes 0 to reset, data/command and chip    *)
(* select, in this order, writes nothing to the bus, and leaves the three   *)
(* lines at 0.                                                              *)
C27_SelectBetweenCalls ==
    /\ (Returned /\ Writes(trace) # <<>>) => cs = 1
    /\ (Returned /\ cs = 0 /\ op.name # "power_off")
            => \A i \in 1..Len(trace) : trace[i].line # "cs"
    /\ (op.name = "power_off")
            => /\ exc = "none"
               /\ IsPrefix(Seen(trace), << <<"pin", "rst", 0, <<>> >>,
                                           <<"pin", "dc", 0, <<>> >>,
                                           <<"pin", "cs", 0, <<>> >> >>)
               /\ Returned => (Len(trace) = 3 /\ PoweredOff)

\* power_off has returned on a configured panel: chip select asserted,
\* reset held low, nothing written to the bus
C27_Witness ==
    /\ op.name = "power_off" /\ Returned
    /\ op.from = "Ready"
    /\ PoweredOff
    /\ Writes(trace) = <<>>

===========================================================================
